---- MODULE Spec2Model ----
(***************************************************************************)
(* Review pipeline of autonomous_code_reviewer.                            *)
(*                                                                         *)
(* Part 1 (Spec, FairSpec): the review trigger PRReviewAPIView.post and    *)
(* ReviewDetailAPIView.delete acting on the ReviewRequest / ReviewResult   *)
(* tables.  A trigger call is a sequence of steps; each step holds at most *)
(* one database operation, so that calls of different workers interleave   *)
(* between database operations as they do in the deployed server.          *)
(*                                                                         *)
(* Part 2 (PRSpec): PRReviewService.analyze_pr over a changed-file list,   *)
(* each call of analyze_file_changes taken as one step.                    *)
(*                                                                         *)
(* Part 3 (RunSpec): one run of analyze_pr with every remote call (the     *)
(* three fetches, the completion calls of each file, of the overall review *)
(* and of the summary) as a step of its own.                               *)
(*                                                                         *)
(* Part 4 (ReqSpec): one call of GitHubService._make_request, attempt by   *)
(* attempt.                                                                *)
(*                                                                         *)
(* Part 5 (DiffSpec, ParseSpec): extract_file_diff and                     *)
(* parse_diff_changes_detailed as functions of bounded diff texts.         *)
(*                                                                         *)
(* Part 6 (UrlSpec): QuickReviewAPIView.post on a github_url, from the     *)
(* serializer's validation to the delegation to the trigger.               *)
(*                                                                         *)
(* Part 7 (LangSpec): PRReviewService.detect_language as a function of     *)
(* bounded paths.                                                          *)
(*                                                                         *)
(* Part 8 (PromptSpec): one PromptManager, from its construction on, with  *)
(* an operator who edits the prompts file, a thread that reloads it and a  *)
(* thread that looks prompts up and builds templates.                      *)
(***************************************************************************)
EXTENDS Integers, Sequences, FiniteSets, TLC

\* ------------------------------------------------------------ bounds
MaxId == 2          \* ids the AutoField hands out
MaxFiles == 12      \* longest changed-file list
MaxRunFiles == 3    \* longest changed-file list of a run followed call by call
MaxRetries == 3     \* largest configured API_MAX_RETRIES
MaxSections == 2    \* most file sections of a full diff
MaxLines == 3       \* most lines of a diff text handed to the parser
MaxPathLen == 4     \* most characters of a path handed to detect_language

Procs == {"w1", "w2"}          \* server workers that can run a call each
Idents == {"acme/widgets#42"}  \* the (owner, repo, pr_number) the calls name
Contents == {"c1", "c2"}       \* outcomes a pipeline run can return
NoContent == "none"
Ids == 1 .. MaxId

VARIABLES
    requests,     \* table ReviewRequest: set of rows [id, ident, status]
    results,      \* table ReviewResult: set of rows [req, content]
    nextId,       \* next value of ReviewRequest.id (AutoField)
    pc,           \* position of each worker inside PRReviewAPIView.post
    rr,           \* the worker's review_request instance (in memory)
    isAsync,      \* the call's async_review input
    outcome,      \* the dict analyze_pr returned to the worker
    obs,          \* what the worker's current call has done so far
    resp,         \* the Response the worker's last call returned
    overlapped,   \* history: some call or delete began while a call was running
    lastUpsert,   \* history: per request id, the content of the upsert applied last
    files,        \* analyze_pr: the list get_pr_files returned
    idx,          \* analyze_pr: loop position in files[:10]
    file_reviews, \* analyze_pr: the file_reviews list
    faulted,      \* analyze_pr: analyze_file_changes has raised in this run
    apc,          \* analyze_pr: position
    pr_details,   \* analyze_pr: what get_pr_details returned
    diff,         \* analyze_pr: what get_pr_diff returned
    overall_review, \* analyze_pr: the overall review text
    summary,      \* analyze_pr: the summary text
    events,       \* history: the remote calls and the raises of the run, in order
    ret,          \* what analyze_pr returned
    max_retries,  \* _make_request: self.max_retries
    attempt,      \* _make_request: the loop variable
    attempts,     \* history: the outcome of each attempt made, in order
    rpc,          \* _make_request: position
    response,     \* what _make_request returned or raised
    full_diff,    \* extract_file_diff: the diff of the pull request
    filename,     \* extract_file_diff: the path asked for
    file_diff,    \* analyze_file_changes: the text extract_file_diff returned
    parsed,       \* analyze_file_changes: (old_code, new_code, code_changes)
    dpc,          \* analyze_file_changes: position
    github_url,   \* QuickReviewAPIView.post: the github_url of the request
    upc,          \* QuickReviewAPIView.post: position
    review_data,  \* QuickReviewAPIView.post: the data handed to the trigger
    uresp,        \* QuickReviewAPIView.post: the Response returned
    file_path,    \* detect_language: the argument
    language,     \* detect_language: the value returned
    lpc,          \* detect_language: position
    source,       \* the prompts file on disk
    prompts,      \* PromptManager.prompts
    mpc,          \* PromptManager: not built, built, or failed in __init__
    tpc,          \* get_prompt_template: position of the building thread
    prompt_type,  \* get_prompt_template: the argument
    system_prompt, \* get_prompt_template: the local read first
    read_from,    \* history: the catalog each part of the template was read from
    template,     \* what get_prompt_template returned
    got           \* what get_prompt returned to a direct caller

dbvars == <<requests, results, nextId>>
callvars == <<pc, rr, isAsync, outcome, obs, resp>>
histvars == <<overlapped, lastUpsert>>
trigvars == <<requests, results, nextId, pc, rr, isAsync, outcome, obs, resp,
              overlapped, lastUpsert>>
prvars == <<files, idx, file_reviews, faulted, apc>>
vars == <<requests, results, nextId, pc, rr, isAsync, outcome, obs, resp,
          overlapped, lastUpsert, files, idx, file_reviews, faulted, apc,
          pr_details, diff, overall_review, summary, events, ret,
          max_retries, attempt, attempts, rpc, response,
          full_diff, filename, file_diff, parsed, dpc,
          github_url, upc, review_data, uresp,
          file_path, language, lpc,
          source, prompts, mpc, tpc, prompt_type, system_prompt, read_from,
          template, got>>
runvars == <<pr_details, diff, overall_review, summary, events, ret>>
reqvars == <<max_retries, attempt, attempts, rpc, response>>
diffvars == <<full_diff, filename, file_diff, parsed, dpc>>
urlvars == <<github_url, upc, review_data, uresp>>
langvars == <<file_path, language, lpc>>
promptvars == <<source, prompts, mpc, tpc, prompt_type, system_prompt, read_from,
                template, got>>
auxvars == <<urlvars, langvars, promptvars>>
svcvars == <<runvars, reqvars, diffvars, auxvars>>
corevars == <<trigvars, prvars, runvars, reqvars, diffvars>>

\* ------------------------------------------------------------ models.py
STATUS_CHOICES == {"pending", "processing", "completed", "failed"}

NoRR == [id |-> 0, ident |-> "none", status |-> "none"]
NoObs == [raised |-> "none", fetched |-> FALSE, completions |-> FALSE,
          wrote |-> FALSE, found |-> "none"]
NoResp == [code |-> 0, kind |-> "none", data |-> NoContent, message |-> ""]

Exists(rows, id) == \E r \in rows : r.id = id
Row(rows, id) == CHOOSE r \in rows : r.id = id
StatusOf(rows, id) == IF Exists(rows, id) THEN Row(rows, id).status ELSE "absent"

HasResult(res, id) == \E x \in res : x.req = id
ResultOf(res, id) == CHOOSE x \in res : x.req = id

\* unique_together = ['owner', 'repo', 'pr_number']: inserting `row` is refused
\* when another row holds the same identity.
UniqueTogetherNone(rows, row) == FALSE
UniqueTogether(rows, row) == \E r \in rows : r.ident = row.ident /\ r.id # row.id

\* the columns of ReviewRequest (14-22): id, the identity (owner, repo,
\* pr_number) and status; Model.save() writes the values of the model's fields
\* and no other attribute of the instance
ModelFields == {"id", "ident", "status"}
Persist(inst) == [f \in ModelFields |-> inst[f]]

\* Model.save() of an instance with a primary key: UPDATE the row with that id;
\* when no row was updated, INSERT it, which the unique constraint may refuse.
SaveOk(rows, inst) == Exists(rows, inst.id) \/ ~UniqueTogether(rows, inst)
Save(rows, inst) ==
    IF Exists(rows, inst.id)
    THEN (rows \ {Row(rows, inst.id)}) \cup {Persist(inst)}
    ELSE IF UniqueTogether(rows, inst) THEN rows ELSE rows \cup {Persist(inst)}

\* ReviewResult.objects.update_or_create(review_request=..., defaults=...):
\* the one row of the request is overwritten, or created when there is none.
\* The foreign key refuses a row for a request that is no longer in the table.
UpsertOk(rows, id) == Exists(rows, id)
UpdateOrCreateKeep(res, id, content) ==
    IF HasResult(res, id) THEN res ELSE res \cup {[req |-> id, content |-> content]}
UpdateOrCreate(res, id, content) ==
    {x \in res : x.req # id} \cup {[req |-> id, content |-> content]}

\* on_delete=CASCADE of ReviewResult.review_request
Cascade(res, id) == {x \in res : x.req # id}

Active(p) == pc[p] # "idle"
OthersActive(p) == \E q \in Procs \ {p} : Active(q)

\* ------------------------------------------------------------ views.py
\* `not created and review_request.status == 'completed'` (line 226)
FoundCompletedCreated(inst, wasCreated) == wasCreated /\ inst.status = "completed"
FoundCompleted(inst, wasCreated) == ~wasCreated /\ inst.status = "completed"

\* status written when the pipeline raised (line 314)
StatusOnErrorStale == "processing"
StatusOnErrorPending == "pending"
StatusOnError == "failed"

\* review_request.status = 'processing'; review_request.save()  (lines 255-256)
MarkProcessingSkip(rows, inst) == rows
MarkProcessing(rows, inst) == Save(rows, [inst EXCEPT !.status = "processing"])

\* empty tables, no call in progress
TriggerIdle ==
    /\ requests = {}
    /\ results = {}
    /\ nextId = 1
    /\ pc = [p \in Procs |-> "idle"]
    /\ rr = [p \in Procs |-> NoRR]
    /\ isAsync = [p \in Procs |-> FALSE]
    /\ outcome = [p \in Procs |-> NoContent]
    /\ obs = [p \in Procs |-> NoObs]
    /\ resp = [p \in Procs |-> NoResp]
    /\ overlapped = FALSE
    /\ lastUpsert = [i \in Ids |-> NoContent]

\* the locals of analyze_pr before its first statement
NoOutcome == [pr_details |-> "none", overall_review |-> "none",
              file_reviews |-> <<>>, summary |-> "none"]
RunIdle ==
    /\ idx = 0
    /\ file_reviews = <<>>
    /\ faulted = FALSE
    /\ pr_details = "none"
    /\ diff = "none"
    /\ overall_review = "none"
    /\ summary = "none"
    /\ events = <<>>
    /\ ret = NoOutcome

\* no call of _make_request in progress
NoResponse == [kind |-> "none", attempt |-> 0]
RequestIdle ==
    /\ max_retries = 0
    /\ attempt = 0
    /\ attempts = <<>>
    /\ rpc = "off"
    /\ response = NoResponse

\* no diff text being processed
NoText == <<>>
NoParse == [old_code |-> NoText, new_code |-> NoText, changes_summary |-> NoText]
DiffIdle ==
    /\ full_diff = NoText
    /\ filename = <<>>
    /\ file_diff = NoText
    /\ parsed = NoParse
    /\ dpc = "off"

\* no quick-review call in progress
NoData == [owner |-> <<>>, repo |-> <<>>, pr_number |-> 0]
NoUResp == [code |-> 0, kind |-> "none"]
UrlIdle ==
    /\ github_url = <<>>
    /\ upc = "off"
    /\ review_data = NoData
    /\ uresp = NoUResp

\* no call of detect_language in progress; a path is absent (None) or given
\* as the sequence of its characters
NoPath == [given |-> FALSE, chars |-> <<>>]
LangIdle ==
    /\ file_path = NoPath
    /\ language = "none"
    /\ lpc = "off"

\* A catalog is None or a mapping from names to entries; an entry is a mapping
\* from parts to texts, or a value that is no mapping.  A text is known by the
\* version of the file (or the built-in default) it came from.
PromptNames == {"file_analysis", "code_improvements", "overall_review",
                "summary_generation"}
PromptKeys == PromptNames \cup {"fallback_improvement"}
TemplateParts == {"system_prompt", "user_prompt"}
Parts == TemplateParts \cup {"template"}
AbsentEntry == [kind |-> "absent", parts |-> [p \in Parts |-> "absent"]]
NoneCatalog == [kind |-> "none", entries |-> [n \in PromptKeys |-> AbsentEntry]]
NoSource == [state |-> "none", version |-> "none"]
NoLookup == [raised |-> "none", value |-> "none"]
NoTemplate == [raised |-> "none", system |-> "none", user |-> "none"]
NoGot == [name |-> "none", part |-> "none", raised |-> "none", value |-> "none"]
NotRead == [system |-> NoneCatalog, user |-> NoneCatalog]

\* no PromptManager in use
PromptIdle ==
    /\ source = NoSource
    /\ prompts = NoneCatalog
    /\ mpc = "off"
    /\ tpc = "off"
    /\ prompt_type = "none"
    /\ system_prompt = NoLookup
    /\ read_from = NotRead
    /\ template = NoTemplate
    /\ got = NoGot

AuxIdle == UrlIdle /\ LangIdle /\ PromptIdle

Init ==
    /\ TriggerIdle
    /\ AuxIdle
    /\ RunIdle
    /\ RequestIdle
    /\ DiffIdle
    /\ files = <<>>
    /\ apc = "off"

\* the call of worker p returns `r`; its locals die with the frame
Return(p, r) ==
    /\ pc' = [pc EXCEPT ![p] = "idle"]
    /\ resp' = [resp EXCEPT ![p] = r]
    /\ obs' = [obs EXCEPT ![p] = NoObs]
    /\ rr' = [rr EXCEPT ![p] = NoRR]
    /\ isAsync' = [isAsync EXCEPT ![p] = FALSE]
    /\ outcome' = [outcome EXCEPT ![p] = NoContent]

\* {'status': 'error', 'message': f"Review failed: {str(e)}"}, HTTP 500 (325-329)
ErrorResponse(why) == [code |-> 500, kind |-> "error", data |-> NoContent, message |-> why]

\* The server hands a call to its first free worker.
Dispatch(p) == p = "w1" \/ Active("w1")

\* A call with valid input (serializer.is_valid(), 210-215):
\* ReviewRequest.objects.get_or_create(owner, repo, pr_number, defaults pending)
\* and the test of line 226 on the instance it returned
Trigger(p, k, a) ==
    /\ pc[p] = "idle"
    /\ Dispatch(p)
    /\ LET found == {r \in requests : r.ident = k} IN
       /\ found = {} => nextId <= MaxId
       /\ LET inst == IF found # {} THEN CHOOSE r \in found : TRUE
                      ELSE [id |-> nextId, ident |-> k, status |-> "pending"]
          IN /\ requests' = requests \cup {inst}
             /\ nextId' = IF found = {} THEN nextId + 1 ELSE nextId
             /\ rr' = [rr EXCEPT ![p] = inst]
             /\ pc' = [pc EXCEPT ![p] =
                         IF FoundCompleted(inst, found = {}) THEN "check" ELSE "start"]
    /\ isAsync' = [isAsync EXCEPT ![p] = a]
    /\ obs' = [obs EXCEPT ![p] = [NoObs EXCEPT !.found = StatusOf(requests, rr'[p].id)]]
    /\ resp' = [resp EXCEPT ![p] = NoResp]
    /\ overlapped' = (overlapped \/ OthersActive(p))
    /\ UNCHANGED <<results, outcome, lastUpsert, prvars, svcvars>>

\* hasattr(review_request, 'result'): a query for the result row; when there is
\* one the stored result is returned (228-235)
CheckResult(p) ==
    /\ pc[p] = "check"
    /\ IF HasResult(results, rr[p].id)
       THEN Return(p, [code |-> 200, kind |-> "cached", message |-> "",
                       data |-> ResultOf(results, rr[p].id).content])
       ELSE /\ pc' = [pc EXCEPT ![p] = "start"]
            /\ UNCHANGED <<rr, isAsync, outcome, obs, resp>>
    /\ UNCHANGED <<dbvars, histvars, prvars, svcvars>>

\* async branch (237-247): status processing is saved and the call returns
StartAsync(p) ==
    /\ pc[p] = "start"
    /\ isAsync[p]
    /\ requests' = MarkProcessing(requests, rr[p])
    /\ IF SaveOk(requests, rr[p])
       THEN Return(p, [code |-> 200, kind |-> "async", data |-> NoContent,
                       message |-> ""])
       ELSE Return(p, ErrorResponse("db"))
    /\ UNCHANGED <<results, nextId, histvars, prvars, svcvars>>

\* PRReviewService(user=request.user) raises (line 250; services.py 336-337, 228-231)
ConstructFails(p) ==
    /\ pc[p] = "start"
    /\ ~isAsync[p]
    /\ Return(p, ErrorResponse("construct"))
    /\ UNCHANGED <<dbvars, histvars, prvars, svcvars>>

\* the service is constructed, then status processing is saved (250-256)
StartSync(p) ==
    /\ pc[p] = "start"
    /\ ~isAsync[p]
    /\ requests' = MarkProcessing(requests, rr[p])
    /\ IF SaveOk(requests, rr[p])
       THEN /\ pc' = [pc EXCEPT ![p] = "analyze"]
            /\ rr' = [rr EXCEPT ![p].status = "processing"]
            /\ UNCHANGED <<isAsync, outcome, obs, resp>>
       ELSE Return(p, ErrorResponse("db"))
    /\ UNCHANGED <<results, nextId, histvars, prvars, svcvars>>

\* asyncio.run(run_review()): analyze_pr returns an outcome or raises (261-262)
AnalyzePR(p) ==
    /\ pc[p] = "analyze"
    /\ \/ \E c \in Contents :
            /\ outcome' = [outcome EXCEPT ![p] = c]
            /\ obs' = [obs EXCEPT ![p].fetched = TRUE, ![p].completions = TRUE]
            /\ pc' = [pc EXCEPT ![p] = "upsert"]
       \/ /\ obs' = [obs EXCEPT ![p].fetched = TRUE, ![p].raised = "analyze"]
          /\ pc' = [pc EXCEPT ![p] = "failed"]
          /\ UNCHANGED outcome
    /\ UNCHANGED <<dbvars, rr, isAsync, resp, histvars, prvars, svcvars>>

\* ReviewResult.objects.update_or_create(...) (288-296)
Upsert(p) ==
    /\ pc[p] = "upsert"
    /\ IF UpsertOk(requests, rr[p].id)
       THEN /\ results' = UpdateOrCreate(results, rr[p].id, outcome[p])
            /\ lastUpsert' = [lastUpsert EXCEPT ![rr[p].id] = outcome[p]]
            /\ obs' = [obs EXCEPT ![p].wrote = TRUE]
            /\ pc' = [pc EXCEPT ![p] = "complete"]
       ELSE /\ obs' = [obs EXCEPT ![p].raised = "db"]
            /\ pc' = [pc EXCEPT ![p] = "failed"]
            /\ UNCHANGED <<results, lastUpsert>>
    /\ UNCHANGED <<requests, nextId, rr, isAsync, outcome, resp, overlapped, prvars, svcvars>>

\* review_request.status = 'completed'; save(); return the outcome (298-311)
SaveCompleted(p) ==
    /\ pc[p] = "complete"
    /\ requests' = Save(requests, [rr[p] EXCEPT !.status = "completed"])
    /\ IF SaveOk(requests, rr[p])
       THEN Return(p, [code |-> 200, kind |-> "completed", data |-> outcome[p],
                       message |-> ""])
       ELSE /\ pc' = [pc EXCEPT ![p] = "failed"]
            /\ obs' = [obs EXCEPT ![p].raised = "db"]
            /\ UNCHANGED <<rr, isAsync, outcome, resp>>
    /\ UNCHANGED <<results, nextId, histvars, prvars, svcvars>>

\* except Exception: status = 'failed'; error_message = str(review_error);
\* save(); raise -> HTTP 500 (313-329)
SaveFailed(p) ==
    /\ pc[p] = "failed"
    /\ requests' = Save(requests, [id |-> rr[p].id, ident |-> rr[p].ident,
                                   status |-> StatusOnError,
                                   error_message |-> obs[p].raised])
    /\ Return(p, ErrorResponse(obs[p].raised))
    /\ UNCHANGED <<results, nextId, histvars, prvars, svcvars>>

\* ReviewDetailAPIView.delete: the row and, by cascade, its result (562-570).
\* A delete that fails or finds no row (404, 500) changes nothing and is no step.
Delete(i) ==
    /\ Exists(requests, i)
    /\ requests' = requests \ {Row(requests, i)}
    /\ results' = Cascade(results, i)
    /\ lastUpsert' = [lastUpsert EXCEPT ![i] = NoContent]
    /\ overlapped' = (overlapped \/ \E q \in Procs : Active(q))
    /\ UNCHANGED <<nextId, callvars, prvars, svcvars>>

Step(p) ==
    \/ CheckResult(p)
    \/ StartAsync(p)
    \/ ConstructFails(p)
    \/ StartSync(p)
    \/ AnalyzePR(p)
    \/ Upsert(p)
    \/ SaveCompleted(p)
    \/ SaveFailed(p)

Next ==
    \/ \E p \in Procs, k \in Idents, a \in BOOLEAN : Trigger(p, k, a)
    \/ \E p \in Procs : Step(p)
    \/ \E i \in Ids : Delete(i)

Spec == Init /\ [][Next]_vars

\* the code schedules every started call until it returns; nothing obliges a
\* client to send another call or a delete
FairSpec == Spec /\ \A p \in Procs : WF_vars(Step(p))

\* ------------------------------------------------------------ claims C1-C8
ResultsOf(res, id) == {x \in res : x.req = id}
StoredResult(rows, res, k) ==
    \E r \in rows : r.ident = k /\ r.status = "completed" /\ HasResult(res, r.id)
Returns(p) == pc[p] # "idle" /\ pc'[p] = "idle"

\* C1: a trigger for an identity whose request is completed and has a stored
\* result goes to the result check and to nothing else; the check returns the
\* stored result (the content of the last upsert, so the same on every repeat)
\* with no fetch and no completion call made, and neither step changes a row of
\* ReviewRequest or ReviewResult.  While calls do not overlap the check always
\* finds the completed request and its result in place.
C1_Step(p) ==
    /\ (pc[p] = "idle" /\ pc'[p] # "idle" /\ StoredResult(requests, results, rr'[p].ident))
         => /\ pc'[p] = "check"
            /\ requests' = requests /\ results' = results
    /\ (pc[p] = "check" /\ pc'[p] # "check" /\ HasResult(results, rr[p].id))
         => /\ pc'[p] = "idle"
            /\ resp'[p] = [code |-> 200, kind |-> "cached", message |-> "",
                           data |-> ResultOf(results, rr[p].id).content]
            /\ resp'[p].data = lastUpsert[rr[p].id]
            /\ ~obs[p].fetched /\ ~obs[p].completions /\ ~obs[p].wrote
            /\ requests' = requests /\ results' = results
    /\ (pc[p] = "check" /\ ~overlapped)
         => /\ StatusOf(requests, rr[p].id) = "completed"
            /\ HasResult(results, rr[p].id)
C1_CacheHit == [][\A p \in Procs : C1_Step(p)]_vars
C1_Witness ==
    \E p \in Procs : pc[p] = "idle" /\ resp[p].kind = "cached" /\ ~overlapped

\* C2: at most one ReviewRequest per identity and per id and at most one
\* ReviewResult per request, in every reachable state; and a synchronous call
\* whose pipeline run succeeded, not overlapped by another call or a delete,
\* returns with the request completed and exactly one result row, holding the
\* outcome of that run.
UniqueRows ==
    /\ \A r1, r2 \in requests : (r1.ident = r2.ident \/ r1.id = r2.id) => r1 = r2
    /\ \A x, y \in results : x.req = y.req => x = y
C2_Step(p) ==
    /\ UniqueRows'
    /\ (pc[p] = "upsert" /\ pc'[p] # "upsert" /\ ~overlapped)
         => /\ pc'[p] = "complete"
            /\ ResultsOf(results', rr[p].id) = {[req |-> rr[p].id, content |-> outcome[p]]}
    /\ (pc[p] = "complete" /\ pc'[p] # "complete" /\ ~overlapped)
         => /\ pc'[p] = "idle"
            /\ resp'[p] = [code |-> 200, kind |-> "completed", data |-> outcome[p],
                           message |-> ""]
            /\ StatusOf(requests', rr[p].id) = "completed"
            /\ ResultsOf(results', rr[p].id) = {[req |-> rr[p].id, content |-> outcome[p]]}
C2_OneResultPerRequest == [][\A p \in Procs : C2_Step(p)]_vars
C2_Witness ==
    /\ ~overlapped
    /\ \E p \in Procs, r \in requests :
          /\ pc[p] = "idle" /\ resp[p].kind = "completed" /\ r.status = "completed"
          /\ ResultsOf(results, r.id) = {[req |-> r.id, content |-> resp[p].data]}

\* C3: when analyze_pr raised, the call writes no ReviewResult (none before it
\* returns, none in the step that returns), returns HTTP 500, and the request
\* row, when it is still in the table (always, when nothing overlaps the call),
\* has status failed after the call.
C3_Step(p) ==
    /\ obs[p].raised = "analyze" => ~obs[p].wrote
    /\ (pc[p] = "analyze" /\ pc'[p] = "failed") => results' = results
    /\ (Returns(p) /\ obs[p].raised = "analyze")
         => /\ resp'[p].code = 500 /\ resp'[p].kind = "error"
            /\ results' = results
            /\ ~overlapped => Exists(requests, rr[p].id)
            /\ Exists(requests, rr[p].id) => StatusOf(requests', rr[p].id) = "failed"
C3_PipelineErrorFails == [][\A p \in Procs : C3_Step(p)]_vars
C3_Witness ==
    /\ ~overlapped /\ results = {}
    /\ \E p \in Procs, r \in requests :
          /\ pc[p] = "idle" /\ resp[p].kind = "error" /\ resp[p].message = "analyze"
          /\ r.status = "failed"

\* C4: every synchronous call that is not a cache hit and returns HTTP 500
\* leaves its request with status failed.
C4_EveryErrorFails ==
    [][\A p \in Procs :
         (Returns(p) /\ ~isAsync[p] /\ resp'[p].code = 500)
            => StatusOf(requests', rr[p].id) = "failed"]_vars

\* C5: a request is created pending, its status is one of the four choices, and
\* while calls follow one another the only changes of a status are
\* pending->processing, processing->completed, processing->failed and
\* failed->processing; a completed request with a stored result keeps its status.
AllowedChange ==
    {<<"pending", "processing">>, <<"processing", "completed">>,
     <<"processing", "failed">>, <<"failed", "processing">>}
C5_Step(i) ==
    /\ Exists(requests', i) => StatusOf(requests', i) \in STATUS_CHOICES
    /\ (~overlapped' /\ ~Exists(requests, i) /\ Exists(requests', i))
         => StatusOf(requests', i) = "pending"
    /\ (~overlapped' /\ Exists(requests, i) /\ Exists(requests', i)
          /\ StatusOf(requests', i) # StatusOf(requests, i))
         => <<StatusOf(requests, i), StatusOf(requests', i)>> \in AllowedChange
    /\ (~overlapped' /\ StatusOf(requests, i) = "completed" /\ HasResult(results, i)
          /\ Exists(requests', i))
         => StatusOf(requests', i) = "completed" /\ HasResult(results', i)
C5_Lifecycle == [][\A i \in Ids : C5_Step(i)]_vars
C5_Witness ==
    /\ ~overlapped
    /\ \E p \in Procs :
          /\ pc[p] = "analyze" /\ obs[p].found = "failed"
          /\ StatusOf(requests, rr[p].id) = "processing"

\* C6: while a synchronous call is about to make, or has made, the remote calls
\* of its run, the persisted status of its request is not pending, and is
\* processing unless another call or a delete overlapped.
C6_ProcessingBeforePipeline ==
    \A p \in Procs :
       (pc[p] = "analyze" \/ obs[p].fetched \/ obs[p].completions)
          => /\ StatusOf(requests, rr[p].id) # "pending"
             /\ ~overlapped => StatusOf(requests, rr[p].id) = "processing"
C6_Witness ==
    \E p \in Procs :
       /\ pc[p] = "analyze" /\ obs[p].found = "pending" /\ ~overlapped
       /\ StatusOf(requests, rr[p].id) = "processing"

\* C7: every request that is processing is eventually completed or failed (or
\* deleted), as long as every started call keeps running.
C7_ProcessingEnds ==
    \A i \in Ids :
       (StatusOf(requests, i) = "processing")
          ~> (StatusOf(requests, i) \in {"completed", "failed", "absent"})

\* C8: whatever the interleaving of the calls, a request has at most one
\* ReviewResult, it has one from the first applied upsert on, and its content is
\* the content of the upsert applied last.
C8_LastUpsertWins ==
    \A i \in Ids :
       /\ Cardinality(ResultsOf(results, i)) <= 1
       /\ HasResult(results, i) <=> lastUpsert[i] # NoContent
       /\ HasResult(results, i) => ResultOf(results, i).content = lastUpsert[i]
\* two overlapping runs of one request both returned `completed`; the stored
\* result is the one of the run that returned first
C8_Witness ==
    /\ overlapped /\ nextId = 2
    /\ \A p \in Procs : pc[p] = "idle" /\ resp[p].kind = "completed"
    /\ resp["w1"].data # resp["w2"].data
    /\ StatusOf(requests, 1) = "completed"
    /\ \E p \in Procs : results = {[req |-> 1, content |-> resp[p].data]}

\* ------------------------------------------------------------ services.py
\* PRReviewService.analyze_pr over the list get_pr_files returned.  A file of
\* the list is [filename, status]; the i-th file is named i, so that a record
\* names the position it was made for.
FileCap == 10
FileStatuses == {"modified", "removed"}

Min(a, b) == IF a < b THEN a ELSE b

RECURSIVE ListsUpTo(_)
ListsUpTo(n) ==
    IF n = 0 THEN {<<>>}
    ELSE LET shorter == ListsUpTo(n - 1)
         IN shorter \cup {Append(l, st) : l \in {x \in shorter : Len(x) = n - 1},
                                           st \in FileStatuses}
FileLists ==
    {[i \in 1 .. Len(l) |-> [filename |-> i, status |-> l[i]]] : l \in ListsUpTo(MaxFiles)}

\* files[:10] (line 650)
InScope(fs) == SubSeq(fs, 1, Min(FileCap, Len(fs)))

\* file_info.get('status') != 'removed' (line 651)
ReviewableAll(f) == TRUE
Reviewable(f) == f.status # "removed"

\* the record analyze_file_changes returns (601-613 when the analysis call
\* succeeded, 620-632 when it raised): a completion that succeeded gives the
\* text of the model, one that failed gives the fallback text of its stage
BasicAnalysisEmpty == ""
BasicAnalysis == "Basic analysis for the file"
FallbackImprovementsFromDiff(fromDiff) == "fallback improvements from the lines of the diff"
FallbackImprovements(fromDiff) ==
    IF fromDiff THEN "fallback improvements from the lines of the diff"
    ELSE "fallback improvements from no lines"
ReviewRecord(f, analysisOk, improvementsOk) ==
    [file |-> f.filename,
     analysis |-> IF analysisOk THEN "analysis" ELSE BasicAnalysis,
     old_code |-> "old code",
     new_code |-> "new code",
     code_changes |-> "code changes",
     improvements |-> IF ~analysisOk THEN FallbackImprovements(FALSE)
                      ELSE IF improvementsOk THEN "improvements"
                      ELSE FallbackImprovements(TRUE)]

\* the placeholder analyze_pr appends when analyze_file_changes raised (660-672)
Placeholder(f) ==
    [file |-> f.filename,
     analysis |-> "Could not analyze this file",
     old_code |-> "Error extracting old code",
     new_code |-> "Error extracting new code",
     code_changes |-> "Analysis failed",
     improvements |-> "Analysis error occurred"]

\* what one iteration appends to file_reviews (653-654, 660-672)
FileReview(f, raised) == IF raised THEN Placeholder(f) ELSE ReviewRecord(f, TRUE, TRUE)

PRInit ==
    /\ TriggerIdle
    /\ AuxIdle
    /\ RunIdle
    /\ RequestIdle
    /\ DiffIdle
    /\ files \in FileLists
    /\ apc = "fetch"

\* get_pr_details, get_pr_diff, get_pr_files (641-643): all three return, or
\* one raises and the run raises (694-697)
PRFetch ==
    /\ apc = "fetch"
    /\ \/ apc' = "loop" /\ idx' = 1
       \/ apc' = "raised" /\ idx' = idx
    /\ UNCHANGED <<files, file_reviews, faulted, trigvars, svcvars>>

\* one iteration of `for file_info in files[:10]` (650-672)
PRReviewFile ==
    /\ apc = "loop"
    /\ idx <= Len(InScope(files))
    /\ LET f == InScope(files)[idx] IN
         IF Reviewable(f)
         THEN \E raised \in BOOLEAN :
                 /\ raised => ~faulted
                 /\ faulted' = (faulted \/ raised)
                 /\ file_reviews' = Append(file_reviews, FileReview(f, raised))
         ELSE UNCHANGED <<file_reviews, faulted>>
    /\ idx' = idx + 1
    /\ UNCHANGED <<files, apc, trigvars, svcvars>>

\* generate_overall_review, generate_summary and the return (679-692)
PRAggregate ==
    /\ apc = "loop"
    /\ idx > Len(InScope(files))
    /\ apc' = "done"
    /\ UNCHANGED <<files, idx, file_reviews, faulted, trigvars, svcvars>>

PRNext == PRFetch \/ PRReviewFile \/ PRAggregate

PRSpec == PRInit /\ [][PRNext]_vars

\* ------------------------------------------------------------ claims C9-C10
NonRemoved(fs) == SelectSeq(fs, LAMBDA f : f.status # "removed")
Names(recs) == [i \in 1 .. Len(recs) |-> recs[i].file]
FileNames(fs) == [i \in 1 .. Len(fs) |-> fs[i].filename]

\* C9: the run returns one record for each of the first 10 non-removed files
\* of the list, min(10, number of non-removed files) records in all.
C9_FilterThenCap ==
    apc = "done" =>
       /\ Len(file_reviews) = Min(FileCap, Len(NonRemoved(files)))
       /\ Names(file_reviews)
            = FileNames(SubSeq(NonRemoved(files), 1, Min(FileCap, Len(NonRemoved(files)))))

\* what the run returns instead: one record for each non-removed file among the
\* first 10 files of the list
C9_CapThenFilter ==
    apc = "done" => Names(file_reviews) = FileNames(NonRemoved(InScope(files)))

\* C10: at every point of the loop and at the return, no record is for a removed
\* file, there are at most 10 records, no position of the list has two records,
\* and the records are in the order of the list.
C10_RecordsFollowFileList ==
    /\ Len(file_reviews) <= FileCap
    /\ \A i \in 1 .. Len(file_reviews) :
          /\ file_reviews[i].file \in 1 .. Len(files)
          /\ files[file_reviews[i].file].status # "removed"
    /\ \A i, j \in 1 .. Len(file_reviews) :
          i < j => file_reviews[i].file < file_reviews[j].file
C10_Witness ==
    /\ apc = "done" /\ Len(files) > FileCap /\ Len(file_reviews) >= 2
    /\ \E i \in 1 .. FileCap : files[i].status = "removed"
    /\ \E i \in 1 .. Len(file_reviews) : file_reviews[i].analysis = "Could not analyze this file"

\* ------------------------------------------------------------ services.py
\* One run of PRReviewService.analyze_pr, remote call by remote call.
RunFileLists ==
    {[i \in 1 .. Len(l) |-> [filename |-> i, status |-> l[i]]] : l \in ListsUpTo(MaxRunFiles)}

FetchStages == {"details", "diff", "files"}
CompletionStages == {"analysis", "improvements", "overall", "summary"}
Event(stage, file, ok) == [stage |-> stage, file |-> file, ok |-> ok]

\* the statement that follows a fetch that returned (641-643, 649-650)
AfterFetchSwapped(stage) ==
    CASE stage = "details" -> "files" [] stage = "files" -> "diff" [] OTHER -> "loop"
AfterFetch(stage) ==
    CASE stage = "details" -> "diff" [] stage = "diff" -> "files" [] OTHER -> "loop"

\* `except Exception` around the call of analyze_file_changes (652, 657)
CatchesFileErrorNot == FALSE
CatchesFileError == TRUE

\* a completion call that raised is not made again: its `except` returns the
\* fallback (517-520, 615-618, 718-721, 736-739)
CompletionRetriedOnce == TRUE
CompletionRetried == FALSE

\* the fallback texts of generate_overall_review (721) and generate_summary (739)
OverallFallback == "Basic PR Review, manual review recommended"
SummaryFallback == "Summary: analyzed the files, manual review recommended"

RunInit ==
    /\ TriggerIdle
    /\ AuxIdle
    /\ RunIdle
    /\ RequestIdle
    /\ DiffIdle
    /\ files = <<>>
    /\ apc = "details"

\* except Exception: raise Exception("PR analysis failed: ...") (694-697)
RunRaises ==
    /\ apc' = "raised"
    /\ UNCHANGED <<files, idx, file_reviews, pr_details, diff, overall_review, summary, ret>>

\* pr_details = self.github_service.get_pr_details(...) (641)
GetPRDetails ==
    /\ apc = "details"
    /\ \/ /\ events' = Append(events, Event("details", 0, TRUE))
          /\ pr_details' = "details"
          /\ apc' = AfterFetch("details")
          /\ UNCHANGED <<files, idx, file_reviews, diff, overall_review, summary, ret>>
       \/ /\ events' = Append(events, Event("details", 0, FALSE))
          /\ RunRaises
    /\ UNCHANGED <<trigvars, faulted, reqvars, diffvars, auxvars>>

\* diff = self.github_service.get_pr_diff(...) (642)
GetPRDiff ==
    /\ apc = "diff"
    /\ \/ /\ events' = Append(events, Event("diff", 0, TRUE))
          /\ diff' = "diff"
          /\ apc' = AfterFetch("diff")
          /\ UNCHANGED <<files, idx, file_reviews, pr_details, overall_review, summary, ret>>
       \/ /\ events' = Append(events, Event("diff", 0, FALSE))
          /\ RunRaises
    /\ UNCHANGED <<trigvars, faulted, reqvars, diffvars, auxvars>>

\* files = self.github_service.get_pr_files(...); file_reviews = [] (643, 649)
GetPRFiles ==
    /\ apc = "files"
    /\ \/ /\ events' = Append(events, Event("files", 0, TRUE))
          /\ files' \in RunFileLists
          /\ idx' = 1
          /\ apc' = AfterFetch("files")
          /\ UNCHANGED <<file_reviews, pr_details, diff, overall_review, summary, ret>>
       \/ /\ events' = Append(events, Event("files", 0, FALSE))
          /\ RunRaises
    /\ UNCHANGED <<trigvars, faulted, reqvars, diffvars, auxvars>>

\* the record of the current file is appended and the loop goes to the next file
AppendReview(rec) ==
    /\ file_reviews' = Append(file_reviews, rec)
    /\ idx' = idx + 1
    /\ apc' = "loop"

\* the head of one iteration (650-653) and of analyze_file_changes (574-583):
\* a removed file is skipped; the statements before the first completion call
\* can raise, and the iteration then appends the placeholder (657-672)
BeginFile ==
    /\ apc = "loop"
    /\ idx <= Len(InScope(files))
    /\ LET f == InScope(files)[idx] IN
         IF ~Reviewable(f)
         THEN /\ idx' = idx + 1
              /\ UNCHANGED <<apc, file_reviews, events>>
         ELSE \/ /\ apc' = "analysis"
                 /\ UNCHANGED <<idx, file_reviews, events>>
              \/ /\ events' = Append(events, Event("file_error", f.filename, FALSE))
                 /\ IF CatchesFileError
                    THEN AppendReview(Placeholder(f))
                    ELSE apc' = "raised" /\ UNCHANGED <<idx, file_reviews>>
    /\ UNCHANGED <<files, pr_details, diff, overall_review, summary, ret>>
    /\ UNCHANGED <<trigvars, faulted, reqvars, diffvars, auxvars>>

\* analysis = await chain.ainvoke({...}) of analyze_file_changes (585-596); when
\* it raises, the record is built from the fallbacks (615-632)
FileAnalysis ==
    /\ apc = "analysis"
    /\ LET f == InScope(files)[idx] IN
       \E ok \in BOOLEAN :
          /\ events' = Append(events, Event("analysis", f.filename, ok))
          /\ IF ok
             THEN apc' = "improvements" /\ UNCHANGED <<idx, file_reviews>>
             ELSE IF CompletionRetried
             THEN UNCHANGED <<apc, idx, file_reviews>>
             ELSE AppendReview(ReviewRecord(f, FALSE, FALSE))
    /\ UNCHANGED <<files, pr_details, diff, overall_review, summary, ret>>
    /\ UNCHANGED <<trigvars, faulted, reqvars, diffvars, auxvars>>

\* improvements = await chain.ainvoke({...}) of generate_code_improvements
\* (505-520), then the record is returned (598-613)
FileImprovements ==
    /\ apc = "improvements"
    /\ LET f == InScope(files)[idx] IN
       \E ok \in BOOLEAN :
          /\ events' = Append(events, Event("improvements", f.filename, ok))
          /\ IF ~ok /\ CompletionRetried
             THEN UNCHANGED <<apc, idx, file_reviews>>
             ELSE AppendReview(ReviewRecord(f, TRUE, ok))
    /\ UNCHANGED <<files, pr_details, diff, overall_review, summary, ret>>
    /\ UNCHANGED <<trigvars, faulted, reqvars, diffvars, auxvars>>

\* overall_review = await self.generate_overall_review(...) (679, 709-721)
OverallReview ==
    /\ apc = "loop"
    /\ idx > Len(InScope(files))
    /\ \E ok \in BOOLEAN :
          /\ events' = Append(events, Event("overall", 0, ok))
          /\ IF ~ok /\ CompletionRetried
             THEN UNCHANGED <<apc, overall_review>>
             ELSE /\ overall_review' = IF ok THEN "overall review" ELSE OverallFallback
                  /\ apc' = "summary"
    /\ UNCHANGED <<files, idx, file_reviews, pr_details, diff, summary, ret>>
    /\ UNCHANGED <<trigvars, faulted, reqvars, diffvars, auxvars>>

\* summary = await self.generate_summary(...), and the return (682-692, 728-739)
Summary ==
    /\ apc = "summary"
    /\ \E ok \in BOOLEAN :
          /\ events' = Append(events, Event("summary", 0, ok))
          /\ IF ~ok /\ CompletionRetried
             THEN UNCHANGED <<apc, summary, ret>>
             ELSE /\ summary' = IF ok THEN "summary" ELSE SummaryFallback
                  /\ ret' = [pr_details |-> pr_details, overall_review |-> overall_review,
                             file_reviews |-> file_reviews, summary |-> summary']
                  /\ apc' = "done"
    /\ UNCHANGED <<files, idx, file_reviews, pr_details, diff, overall_review>>
    /\ UNCHANGED <<trigvars, faulted, reqvars, diffvars, auxvars>>

RunNext ==
    \/ GetPRDetails
    \/ GetPRDiff
    \/ GetPRFiles
    \/ BeginFile
    \/ FileAnalysis
    \/ FileImprovements
    \/ OverallReview
    \/ Summary

RunSpec == RunInit /\ [][RunNext]_vars

\* ------------------------------------------------------------ claims C11-C13, C16
EventsOf(stage, file) ==
    {i \in 1 .. Len(events) : events[i].stage = stage /\ events[i].file = file}
Failed(stage, file) == \E i \in EventsOf(stage, file) : ~events[i].ok
RecordsOf(file) == {i \in 1 .. Len(file_reviews) : file_reviews[i].file = file}
FetchesDone ==
    /\ Len(events) >= 3
    /\ \A i \in 1 .. 3 : events[i].ok /\ events[i].stage \in FetchStages
CompleteOutcome ==
    /\ ret.pr_details = "details"
    /\ ret.overall_review \notin {"none", ""}
    /\ ret.summary \notin {"none", ""}
    /\ ret.file_reviews = file_reviews
    /\ Names(file_reviews) = FileNames(NonRemoved(InScope(files)))

C13_FetchOrderAndAbort ==
    /\ \A i \in 1 .. Len(events) :
          /\ events[i].stage = "details" => i = 1
          /\ events[i].stage = "diff" => i = 2 /\ events[1] = Event("details", 0, TRUE)
          /\ events[i].stage = "files" => i = 3 /\ events[2] = Event("diff", 0, TRUE)
          /\ events[i].stage \notin FetchStages => i > 3 /\ events[3] = Event("files", 0, TRUE)
          /\ (events[i].stage \in FetchStages /\ ~events[i].ok)
                => /\ i = Len(events)
                   /\ apc = "raised"
                   /\ ret = NoOutcome
                   /\ file_reviews = <<>> /\ overall_review = "none" /\ summary = "none"
    /\ ret # NoOutcome => apc = "done" /\ FetchesDone
C13_Witness ==
    /\ apc = "raised"
    /\ events = <<Event("details", 0, TRUE), Event("diff", 0, TRUE), Event("files", 0, FALSE)>>

\* C16: in one run each completion stage is invoked at most once (per file for
\* the analysis and the improvements), and an invocation that failed has been
\* followed by the fallback text of its stage.
C16_CompletionsNotRetried ==
    /\ \A st \in CompletionStages, f \in 0 .. Len(files) :
          Cardinality(EventsOf(st, f)) <= 1
    /\ \A f \in 1 .. Len(files) :
          /\ Failed("analysis", f) =>
                /\ RecordsOf(f) # {}
                /\ \A i \in RecordsOf(f) : file_reviews[i].analysis = BasicAnalysis
          /\ Failed("improvements", f) =>
                /\ RecordsOf(f) # {}
                /\ \A i \in RecordsOf(f) :
                      file_reviews[i].improvements = FallbackImprovements(TRUE)
    /\ Failed("overall", 0) => overall_review = OverallFallback
    /\ Failed("summary", 0) => summary = SummaryFallback /\ apc = "done"
C16_Witness ==
    /\ apc = "done" /\ Len(files) = 2
    /\ Failed("analysis", 1) /\ Failed("improvements", 2) /\ Failed("overall", 0)
    /\ Cardinality(EventsOf("analysis", 2)) = 1

\* ------------------------------------------------------------ services.py
\* One call of GitHubService._make_request (243-264).  An attempt ends with a
\* 2xx response ("ok"), with a transport failure (ConnectionError, Timeout), or
\* with a non-2xx response, for which response.raise_for_status() raises
\* HTTPError; ConnectionError, Timeout and HTTPError are all subclasses of
\* requests.exceptions.RequestException.
TransportFailures == {"connection", "timeout"}
RequestExceptions == TransportFailures \cup {"http"}
AttemptOutcomes == {"ok"} \cup RequestExceptions

\* `if attempt < self.max_retries: continue` (259-262)
RetryAllowedNever(a, n) == FALSE
RetryAllowed(a, n) == a < n

\* self.max_retries as configured (line 226; services.py 22)
ReqInit ==
    /\ TriggerIdle
    /\ AuxIdle
    /\ RunIdle
    /\ DiffIdle
    /\ files = <<>>
    /\ apc = "off"
    /\ max_retries \in 0 .. MaxRetries
    /\ attempt = 0
    /\ attempts = <<>>
    /\ rpc = "attempt"
    /\ response = NoResponse

\* one iteration of `for attempt in range(self.max_retries + 1)` (248-264); a
\* loop that ends without return or raise makes the function return None
MakeAttempt(o) ==
    /\ rpc = "attempt"
    /\ attempts' = Append(attempts, o)
    /\ IF o = "ok"
       THEN /\ rpc' = "returned"
            /\ response' = [kind |-> "response", attempt |-> attempt]
            /\ UNCHANGED attempt
       ELSE IF RetryAllowed(attempt, max_retries)
       THEN IF attempt + 1 <= max_retries
            THEN attempt' = attempt + 1 /\ UNCHANGED <<rpc, response>>
            ELSE /\ rpc' = "returned"
                 /\ response' = [kind |-> "None", attempt |-> attempt]
                 /\ UNCHANGED attempt
       ELSE /\ rpc' = "raised"
            /\ response' = [kind |-> o, attempt |-> attempt]
            /\ UNCHANGED attempt
    /\ UNCHANGED <<max_retries, trigvars, prvars, runvars, diffvars, auxvars>>

ReqNext == \E o \in AttemptOutcomes : MakeAttempt(o)

ReqSpec == ReqInit /\ [][ReqNext]_vars

\* ------------------------------------------------------------ claims C14-C15
\* C14: a call makes at most max_retries + 1 attempts; a successful attempt is
\* the last one and the call returns its response; the call raises only after
\* max_retries + 1 failed attempts, and what it raises is the failure of the
\* last attempt; it never returns a default value.
C14_BoundedRetry ==
    /\ Len(attempts) <= max_retries + 1
    /\ attempt = (IF rpc = "attempt" THEN Len(attempts) ELSE Len(attempts) - 1)
    /\ \A i \in 1 .. Len(attempts) :
          attempts[i] = "ok" => i = Len(attempts) /\ rpc = "returned"
    /\ rpc = "returned" =>
          /\ attempts[Len(attempts)] = "ok"
          /\ response = [kind |-> "response", attempt |-> Len(attempts) - 1]
    /\ rpc = "raised" =>
          /\ Len(attempts) = max_retries + 1
          /\ \A i \in 1 .. Len(attempts) : attempts[i] # "ok"
          /\ response = [kind |-> attempts[Len(attempts)], attempt |-> max_retries]
C14_Witness ==
    /\ max_retries = 2 /\ rpc = "raised"
    /\ attempts = <<"timeout", "connection", "timeout">>
    /\ response.kind = "timeout"

\* C15: an attempt that received a non-2xx response is the last attempt of the
\* call, and the call raises.
C15_HttpErrorNotRetried ==
    \A i \in 1 .. Len(attempts) :
       attempts[i] = "http" => i = Len(attempts) /\ rpc = "raised"

\* ------------------------------------------------------------ services.py
\* extract_file_diff (468-485) and parse_diff_changes_detailed (354-399).
\* A Python string is held as the list of its lines, str.split('\n'), which is
\* never empty: the empty string is the one empty line.  A line is the sequence
\* of its characters; a run of characters that no test of the code looks into
\* is written as one element.
EmptyStr == << <<>> >>
Str(chars) == << <<chars>> >>

\* '\n'.join(lines)
Join(lines) == IF lines = <<>> THEN EmptyStr ELSE lines

\* line.startswith(prefix)
StartsWith(line, prefix) ==
    Len(line) >= Len(prefix) /\ SubSeq(line, 1, Len(prefix)) = prefix

\* the header git writes for the section of `path`
Header(path) == <<"diff --git", " a/">> \o path \o <<" b/">> \o path

\* line.startswith(f'diff --git a/{filename}') or
\* line.startswith(f'diff --git b/{filename}') (line 478)
MatchesHeader(line, fn) ==
    \/ StartsWith(line, <<"diff --git", " a/">> \o fn)
    \/ StartsWith(line, <<"diff --git", " b/">> \o fn)

\* f"No diff available for {filename}" (471), f"No diff content found for {filename}" (485)
NoDiffAvailable(fn) == << <<"No diff available for ">> \o fn >>
NoDiffContentBare(fn) == EmptyStr
NoDiffContent(fn) == << <<"No diff content found for ">> \o fn >>

\* the loop of lines 477-483, from line i on
RECURSIVE ExtractLoop(_, _, _, _, _)
ExtractLoop(lines, fn, i, in_file, acc) ==
    IF i > Len(lines) THEN acc
    ELSE IF MatchesHeader(lines[i], fn) THEN ExtractLoop(lines, fn, i + 1, TRUE, acc)
    ELSE IF StartsWith(lines[i], <<"diff --git">>) /\ in_file THEN acc
    ELSE IF in_file THEN ExtractLoop(lines, fn, i + 1, in_file, Append(acc, lines[i]))
    ELSE ExtractLoop(lines, fn, i + 1, in_file, acc)

extract_file_diff(fd, fn) ==
    IF fd = EmptyStr THEN NoDiffAvailable(fn)
    ELSE LET out == ExtractLoop(fd, fn, 1, FALSE, <<>>)
         IN IF out # <<>> THEN Join(out) ELSE NoDiffContent(fn)

\* the branch of lines 366-392 a line takes
ClassifyAnyDash(line) ==
    IF StartsWith(line, <<"@", "@">>) THEN "hunk"
    ELSE IF StartsWith(line, <<"-">>) THEN "removed"
    ELSE IF StartsWith(line, <<"+">>) /\ ~StartsWith(line, <<"+", "+", "+">>) THEN "added"
    ELSE IF StartsWith(line, <<" ">>) THEN "context"
    ELSE "other"
Classify(line) ==
    IF StartsWith(line, <<"@", "@">>) THEN "hunk"
    ELSE IF StartsWith(line, <<"-">>) /\ ~StartsWith(line, <<"-", "-", "-">>) THEN "removed"
    ELSE IF StartsWith(line, <<"+">>) /\ ~StartsWith(line, <<"+", "+", "+">>) THEN "added"
    ELSE IF StartsWith(line, <<" ">>) THEN "context"
    ELSE "other"

\* re.search(r'@@\s*-(\d+)(?:,\d+)?\s*\+(\d+)(?:,\d+)?\s*@@', line) (370) on the
\* hunk headers of the model, and int(new_line) (373)
Numerals == <<"1", "2", "3", "4", "5", "6", "7", "8", "9", "10", "11", "12">>
HunkMatch(line) ==
    /\ Len(line) = 5
    /\ line[3] = " -1 +"
    /\ \E n \in DOMAIN Numerals : Numerals[n] = line[4]
    /\ line[5] = " @@"
NewStart(line) == CHOOSE n \in DOMAIN Numerals : Numerals[n] = line[4]

\* the annotations appended to `changes` (374, 380, 384, 391)
Annotation(label, n, text) == <<label, Numerals[n], "): ">> \o text

\* line[1:] (379, 383, 388)
DropPrefixNot(line) == line
DropPrefix(line) == Tail(line)

\* `line_number += 1` after an added line (385) and a context line (392), and
\* no such statement after a removed line (377-380)
AdvanceAlways(c) == 1
Advance(c) == IF c \in {"added", "context"} THEN 1 ELSE 0

\* one iteration of the loop of lines 365-392
ParseLine(st, line) ==
    LET c == Classify(line) IN
    IF c = "hunk"
    THEN IF HunkMatch(line)
         THEN [st EXCEPT !.line_number = NewStart(line),
                         !.changes = Append(@, <<"   HUNK: ">> \o line)]
         ELSE st
    ELSE IF c = "removed"
    THEN [st EXCEPT !.old = Append(@, DropPrefix(line)),
                    !.changes = Append(@, Annotation("REMOVED (Line ~", st.line_number,
                                                     DropPrefix(line))),
                    !.line_number = @ + Advance(c)]
    ELSE IF c = "added"
    THEN [st EXCEPT !.new = Append(@, DropPrefix(line)),
                    !.changes = Append(@, Annotation("ADDED (Line ", st.line_number,
                                                     DropPrefix(line))),
                    !.line_number = @ + Advance(c)]
    ELSE IF c = "context"
    THEN [st EXCEPT !.old = Append(@, DropPrefix(line)),
                    !.new = Append(@, DropPrefix(line)),
                    !.changes = Append(@, Annotation("   CONTEXT (Line ", st.line_number,
                                                     DropPrefix(line))),
                    !.line_number = @ + Advance(c)]
    ELSE st

RECURSIVE ParseLoop(_, _, _)
ParseLoop(lines, i, st) ==
    IF i > Len(lines) THEN st ELSE ParseLoop(lines, i + 1, ParseLine(st, lines[i]))

NoOldCode == Str("No old code found")
NoNewCode == Str("No new code found")
NoMeaningfulChanges == Str("No meaningful changes found in diff")

parse_diff_changes_detailed(d) ==
    IF d = EmptyStr
    THEN [old_code |-> EmptyStr, new_code |-> EmptyStr,
          changes_summary |-> Str("No diff available")]
    ELSE LET st == ParseLoop(d, 1, [old |-> <<>>, new |-> <<>>, changes |-> <<>>,
                                    line_number |-> 1])
         IN [old_code |-> IF st.old # <<>> THEN Join(st.old) ELSE NoOldCode,
             new_code |-> IF st.new # <<>> THEN Join(st.new) ELSE NoNewCode,
             changes_summary |-> IF st.changes # <<>> THEN Join(st.changes)
                                 ELSE NoMeaningfulChanges]

\* ---- the inputs
\* paths of changed files: "a.js", "a.json", "b.py"; and one that is in no diff
Paths == {<<"a.js">>, <<"a.js", "on">>, <<"b.py">>}
Targets == Paths \cup {<<"gone.py">>}

HunkLine == <<"@", "@", " -1 +", "5", " @@">>
\* what follows the header in the section of `path`: nothing, one added line,
\* or a hunk that removes, adds and keeps a line
Bodies(path) ==
    {<<>>,
     << <<"+", "added to ">> \o path >>,
     <<HunkLine, <<"-", "removed from ">> \o path, <<"+", "added to ">> \o path,
       <<" ", "kept in ">> \o path>>}
Section(path, body) == <<Header(path)>> \o body

\* the diffs of up to n sections, no path twice
RECURSIVE DiffsOf(_, _)
DiffsOf(n, used) ==
    IF n = 0 THEN {<<>>}
    ELSE {<<>>} \cup
         UNION {{Section(p, b) \o rest : b \in Bodies(p), rest \in DiffsOf(n - 1, used \cup {p})}
                : p \in Paths \ used}
FullDiffs == {Join(d) : d \in DiffsOf(MaxSections, {})}

\* the lines of the texts handed to the parser
LineAlphabet ==
    {HunkLine, <<"@", "@", " junk">>,
     <<"-", "old">>, <<"-">>, <<"-", "-", "-", " a/f">>,
     <<"+", "new">>, <<"+", "+", "+", " b/f">>,
     <<" ", "ctx">>, <<" ", "more">>, <<>>, <<"index 1a2b..3c4d">>}
DiffTexts == UNION {[1 .. k -> LineAlphabet] : k \in 1 .. MaxLines}

\* ---- analyze_file_changes, lines 575 and 578
DiffInit ==
    /\ TriggerIdle
    /\ AuxIdle
    /\ RunIdle
    /\ RequestIdle
    /\ files = <<>>
    /\ apc = "off"
    /\ full_diff \in FullDiffs
    /\ filename \in Targets
    /\ file_diff = NoText
    /\ parsed = NoParse
    /\ dpc = "extract"

ParseInit ==
    /\ TriggerIdle
    /\ AuxIdle
    /\ RunIdle
    /\ RequestIdle
    /\ files = <<>>
    /\ apc = "off"
    /\ full_diff = NoText
    /\ filename = <<>>
    /\ file_diff \in DiffTexts
    /\ parsed = NoParse
    /\ dpc = "parse"

\* file_diff = self.extract_file_diff(full_diff, file_path) (575)
ExtractFileDiff ==
    /\ dpc = "extract"
    /\ file_diff' = extract_file_diff(full_diff, filename)
    /\ dpc' = "parse"
    /\ UNCHANGED <<full_diff, filename, parsed, trigvars, prvars, runvars, reqvars,
                   auxvars>>

\* old_code, new_code, code_changes = self.parse_diff_changes_detailed(file_diff) (578)
ParseDiff ==
    /\ dpc = "parse"
    /\ parsed' = parse_diff_changes_detailed(file_diff)
    /\ dpc' = "done"
    /\ UNCHANGED <<full_diff, filename, file_diff, trigvars, prvars, runvars, reqvars,
                   auxvars>>

DiffNext == ExtractFileDiff \/ ParseDiff
DiffSpec == DiffInit /\ [][DiffNext]_vars

ParseNext == ParseDiff
ParseSpec == ParseInit /\ [][ParseNext]_vars

\* ------------------------------------------------------------ claims C17-C20
Lines(text) == {text[i] : i \in 1 .. Len(text)}
HasHeader(fd, path) == Header(path) \in Lines(fd)
\* the lines between the header of `path` and the next `diff --git` header
OwnSection(fd, path) ==
    LET h == CHOOSE i \in 1 .. Len(fd) : fd[i] = Header(path)
        later == {j \in (h + 1) .. Len(fd) : StartsWith(fd[j], <<"diff --git">>)}
        n == IF later = {} THEN Len(fd) + 1
             ELSE CHOOSE j \in later : \A k \in later : j <= k
    IN SubSeq(fd, h + 1, n - 1)
Sentinels(fn) == {NoDiffAvailable(fn), NoDiffContent(fn)}

\* C17: for a path that has a header in the diff, what extract_file_diff
\* returns is a sentinel or consists of lines of that path's own section only.
C17_FileIsolation ==
    (dpc # "extract" /\ HasHeader(full_diff, filename)) =>
       \/ file_diff \in Sentinels(filename)
       \/ Lines(file_diff) \subseteq Lines(OwnSection(full_diff, filename))

\* where the isolation does hold: no other section of the diff is for a path
\* that begins with the path asked for
C17_IsolationWithoutPrefix ==
    (/\ dpc # "extract"
     /\ HasHeader(full_diff, filename)
     /\ \A i \in 1 .. Len(full_diff) :
           MatchesHeader(full_diff[i], filename) => full_diff[i] = Header(filename))
       => \/ file_diff = NoDiffContent(filename) /\ OwnSection(full_diff, filename) = <<>>
          \/ file_diff = OwnSection(full_diff, filename)

\* C18: for the empty diff and for a diff none of whose lines matches the
\* header of the path, extract_file_diff returns the sentinel of the case, a
\* non-empty one-line text ending with the path; parsing it gives the three
\* placeholder strings.
NoMatch ==
    \/ full_diff = EmptyStr
    \/ \A i \in 1 .. Len(full_diff) : ~MatchesHeader(full_diff[i], filename)
IsOldLine(l) ==
    \/ StartsWith(l, <<"-">>) /\ ~StartsWith(l, <<"-", "-", "-">>)
    \/ StartsWith(l, <<" ">>)
IsNewLine(l) ==
    \/ StartsWith(l, <<"+">>) /\ ~StartsWith(l, <<"+", "+", "+">>)
    \/ StartsWith(l, <<" ">>)
Strip(ls) == [i \in 1 .. Len(ls) |-> Tail(ls[i])]
Recognizable(l) == Classify(l) # "other" /\ (Classify(l) = "hunk" => HunkMatch(l))
Degenerate(text) ==
    text = EmptyStr \/ \A i \in 1 .. Len(text) : ~Recognizable(text[i])
C20_DegenerateGivesSentinels ==
    (dpc = "done" /\ Degenerate(file_diff)) =>
       /\ parsed = [old_code |-> NoOldCode, new_code |-> NoNewCode,
                    changes_summary |-> NoMeaningfulChanges]
       /\ parsed.old_code # EmptyStr /\ parsed.new_code # EmptyStr
       /\ parsed.changes_summary # EmptyStr

\* what holds in its place: the sentinels for every degenerate diff but the empty one
C20_NonEmptyDegenerate ==
    (dpc = "done" /\ Degenerate(file_diff) /\ file_diff # EmptyStr) =>
       parsed = [old_code |-> NoOldCode, new_code |-> NoNewCode,
                 changes_summary |-> NoMeaningfulChanges]

\* ------------------------------------------------------------ claims C21, C28
IsContextLine(l) == StartsWith(l, <<" ">>)
IsAddedLine(l) == StartsWith(l, <<"+">>) /\ ~StartsWith(l, <<"+", "+", "+">>)
IsRemovedLine(l) == StartsWith(l, <<"-">>) /\ ~StartsWith(l, <<"-", "-", "-">>)
IsHunkLine(l) == StartsWith(l, <<"@", "@">>) /\ HunkMatch(l)

\* C21: for a diff that has context lines and neither added nor removed lines
\* (hunk headers and other lines may stand between them), old-text and new-text
\* are equal, and both are the context lines in order without their leading
\* space.
ContextOnly(text) ==
    /\ \E i \in 1 .. Len(text) : IsContextLine(text[i])
    /\ \A i \in 1 .. Len(text) : ~IsAddedLine(text[i]) /\ ~IsRemovedLine(text[i])
C21_ContextRoundTrip ==
    (dpc = "done" /\ ContextOnly(file_diff)) =>
       LET ctx == SelectSeq(file_diff, IsContextLine) IN
          /\ parsed.old_code = parsed.new_code
          /\ Len(parsed.old_code) = Len(ctx)
          /\ \A i \in 1 .. Len(ctx) : <<" ">> \o parsed.old_code[i] = ctx[i]
C21_Witness ==
    /\ dpc = "done"
    /\ file_diff = << <<" ", "ctx">>, <<"index 1a2b..3c4d">>, <<" ", "more">> >>
    /\ parsed.old_code = << <<"ctx">>, <<"more">> >>
    /\ parsed.new_code = << <<"ctx">>, <<"more">> >>

\* C28: the annotations are, line by line: a HUNK marker for a hunk header
\* that matches, nothing for a line starting with '@@' that does not match and
\* for any other line, and for an added, context or removed line an annotation
\* carrying the counter, which is the newStart of the last matching hunk header
\* before the line (1 when there is none) plus the number of added and context
\* lines since then; removed lines are not counted.
LastHunk(text, i) ==
    LET hs == {j \in 1 .. (i - 1) : IsHunkLine(text[j])}
    IN IF hs = {} THEN 0 ELSE CHOOSE j \in hs : \A k \in hs : k <= j
CounterAt(text, i) ==
    LET h == LastHunk(text, i)
        base == IF h = 0 THEN 1 ELSE NewStart(text[h])
    IN base + Cardinality({j \in (h + 1) .. (i - 1) :
                              IsAddedLine(text[j]) \/ IsContextLine(text[j])})
Emits(text, i) ==
    IsHunkLine(text[i]) \/ IsAddedLine(text[i]) \/ IsRemovedLine(text[i])
       \/ IsContextLine(text[i])
ExpectedAnnotation(text, i) ==
    IF IsHunkLine(text[i]) THEN <<"   HUNK: ">> \o text[i]
    ELSE IF IsRemovedLine(text[i])
    THEN <<"REMOVED (Line ~", Numerals[CounterAt(text, i)], "): ">> \o Tail(text[i])
    ELSE IF IsAddedLine(text[i])
    THEN <<"ADDED (Line ", Numerals[CounterAt(text, i)], "): ">> \o Tail(text[i])
    ELSE <<"   CONTEXT (Line ", Numerals[CounterAt(text, i)], "): ">> \o Tail(text[i])
ExpectedChanges(text) ==
    LET at == SelectSeq([i \in 1 .. Len(text) |-> i], LAMBDA i : Emits(text, i))
    IN [k \in 1 .. Len(at) |-> ExpectedAnnotation(text, at[k])]
C28_LineCounter ==
    (dpc = "done" /\ file_diff # EmptyStr) =>
       LET exp == ExpectedChanges(file_diff)
       IN parsed.changes_summary = (IF exp = <<>> THEN NoMeaningfulChanges ELSE exp)
C28_Witness ==
    /\ dpc = "done"
    /\ file_diff = <<HunkLine, <<"+", "new">>, <<"-", "old">>>>
    /\ parsed.changes_summary =
          << <<"   HUNK: ">> \o HunkLine,
             <<"ADDED (Line ", "5", "): ", "new">>,
             <<"REMOVED (Line ~", "6", "): ", "old">> >>

\* ------------------------------------------------------------ claim C30
\* C30: an improvements call for a file comes straight after the analysis call
\* for that file, which succeeded; after a failed analysis call no improvements
\* call is made for the file, and the improvements text of its record is the
\* fallback built from empty line lists, not the one built from the diff.
C30_ImprovementsAfterAnalysis ==
    /\ \A j \in 1 .. Len(events) :
          events[j].stage = "improvements" =>
             /\ j > 1
             /\ events[j - 1] = Event("analysis", events[j].file, TRUE)
    /\ \A f \in 1 .. Len(files) :
          Failed("analysis", f) =>
             /\ EventsOf("improvements", f) = {}
             /\ RecordsOf(f) # {}
             /\ \A i \in RecordsOf(f) :
                   /\ file_reviews[i].improvements = FallbackImprovements(FALSE)
                   /\ file_reviews[i].improvements # FallbackImprovements(TRUE)
C30_Witness ==
    /\ apc = "done" /\ Len(files) = 2
    /\ Failed("analysis", 1) /\ EventsOf("improvements", 1) = {}
    /\ EventsOf("improvements", 2) # {}
    /\ ret.file_reviews[1].improvements = "fallback improvements from no lines"

\* ------------------------------------------------------------ claims C26, C29
\* C26: when a synchronous call whose pipeline raised returns, the row of its
\* request, as a later query reads it, has status failed and carries the error
\* message of the run.
C26_ErrorRecorded ==
    [][\A p \in Procs :
         (Returns(p) /\ obs[p].raised = "analyze" /\ Exists(requests', rr[p].id))
            => LET row == Row(requests', rr[p].id)
               IN /\ row.status = "failed"
                  /\ "error_message" \in DOMAIN row
                  /\ row.error_message = obs[p].raised]_vars

\* C29: in every reachable state a failed request has no ReviewResult and a
\* completed request has one.
C29_StatusMatchesResult ==
    \A r \in requests :
       /\ r.status = "failed" => ~HasResult(results, r.id)
       /\ r.status = "completed" => HasResult(results, r.id)

\* what holds in its place: the same, in the states reached by calls and
\* deletes that do not overlap
C29_SequentialStatusMatchesResult == ~overlapped => C29_StatusMatchesResult

\* ------------------------------------------------------------ Part 6
\* QuickReviewSerializer and QuickReviewAPIView.post.  A URL is the sequence of
\* its pieces; "/" is a piece of its own, so that [^/]+ is a run of pieces
\* other than "/" and \d+ a run of digit pieces.
Slash == <<"/">>
Digit == {"0", "4", "2", "7"}
DigitValue == [c \in Digit |->
    IF c = "0" THEN 0 ELSE IF c = "2" THEN 2 ELSE IF c = "4" THEN 4 ELSE 7]
Pieces == {"https://", "http://", "git://", "github.com", "gitlab.com", "/",
           "acme", "widgets", "pull", "issues", "files", "abc"} \cup Digit
NotSlash == Pieces \ {"/"}

\* the position after the longest run of pieces of `set` that starts at i
RunEnd(s, i, set) ==
    CHOOSE j \in i .. Len(s) + 1 :
        /\ \A k \in i .. j - 1 : s[k] \in set
        /\ j = Len(s) + 1 \/ s[j] \notin set

\* the literal `lit` stands at position i of s
Lit(s, i, lit) ==
    /\ i + Len(lit) - 1 <= Len(s)
    /\ SubSeq(s, i, i + Len(lit) - 1) = lit

\* re.match(r'https://github\.com/([^/]+)/([^/]+)/pull/(\d+)', value): the
\* positions of the three groups.  match() anchors the pattern at the start of
\* the value only; nothing in the pattern anchors its end.
UrlPrefix == <<"https://", "github.com", "/">>
PullPath == <<"/", "pull", "/">>
OwnerStart == Len(UrlPrefix) + 1
OwnerEnd(u) == RunEnd(u, OwnerStart, NotSlash)
RepoStart(u) == OwnerEnd(u) + Len(Slash)
RepoEnd(u) == RunEnd(u, RepoStart(u), NotSlash)
NumberStart(u) == RepoEnd(u) + Len(PullPath)
NumberEnd(u) == RunEnd(u, NumberStart(u), Digit)
Match(u) ==
    /\ Lit(u, 1, UrlPrefix)
    /\ OwnerEnd(u) > OwnerStart
    /\ Lit(u, OwnerEnd(u), Slash)
    /\ RepoEnd(u) > RepoStart(u)
    /\ Lit(u, RepoEnd(u), PullPath)
    /\ NumberEnd(u) > NumberStart(u)

\* int(pr_number) of a digit run
RECURSIVE ToInt(_)
ToInt(ds) ==
    IF ds = <<>> THEN 0
    ELSE 10 * ToInt(SubSeq(ds, 1, Len(ds) - 1)) + DigitValue[ds[Len(ds)]]

\* owner, repo, pr_number = match.groups(); pr_number = int(pr_number) (359-368)
Groups(u) ==
    [owner |-> SubSeq(u, OwnerStart, OwnerEnd(u) - 1),
     repo |-> SubSeq(u, RepoStart(u), RepoEnd(u) - 1),
     pr_number |-> ToInt(SubSeq(u, NumberStart(u), NumberEnd(u) - 1))]

\* serializers.URLField(): URLValidator admits the schemes http, https, ftp, ftps
UrlFieldOk(u) == u # <<>> /\ u[1] \in {"http://", "https://", "ftp://", "ftps://"}

\* the URLs a client sends
Schemes == {"https://", "http://", "git://"}
Hosts == {"github.com", "gitlab.com"}
Owners == {<<"acme">>, <<>>}
Repos == {<<"widgets">>}
Kinds == {"pull", "issues"}
Numbers == {<<"4", "2">>, <<"7">>, <<>>}
Suffixes == {<<>>, <<"/">>, <<"/", "files">>, <<"abc">>}
Urls ==
    {<<sc, h, "/">> \o o \o Slash \o r \o <<"/", k, "/">> \o n \o x :
        sc \in Schemes, h \in Hosts, o \in Owners, r \in Repos, k \in Kinds,
        n \in Numbers, x \in Suffixes}

UrlInit ==
    /\ TriggerIdle
    /\ RunIdle
    /\ RequestIdle
    /\ DiffIdle
    /\ files = <<>>
    /\ apc = "off"
    /\ LangIdle
    /\ PromptIdle
    /\ github_url \in Urls
    /\ upc = "validate"
    /\ review_data = NoData
    /\ uresp = NoUResp

BadRequest == [code |-> 400, kind |-> "error"]

\* serializer.is_valid() (343-344, 385-388): the URLField, then
\* validate_github_url (serializers.py 40-47)
ValidateUrl ==
    /\ upc = "validate"
    /\ IF UrlFieldOk(github_url) /\ Match(github_url)
       THEN upc' = "parse" /\ uresp' = uresp
       ELSE upc' = "done" /\ uresp' = BadRequest
    /\ UNCHANGED <<github_url, review_data, corevars, langvars, promptvars>>

\* the view matches the URL again and builds review_data (348-368)
ParseUrl ==
    /\ upc = "parse"
    /\ IF Match(github_url)
       THEN upc' = "delegate" /\ review_data' = Groups(github_url) /\ uresp' = uresp
       ELSE upc' = "done" /\ review_data' = review_data /\ uresp' = BadRequest
    /\ UNCHANGED <<github_url, corevars, langvars, promptvars>>

\* PRReviewInputSerializer(data=review_data).is_valid(): owner and repo are
\* non-blank CharFields, pr_number an IntegerField (serializers.py 30-34)
InputOk(d) == d.owner # <<>> /\ d.repo # <<>> /\ d.pr_number \in Int

\* return review_view.post(request) (371-383): the Response is the trigger's
DelegateReview ==
    /\ upc = "delegate"
    /\ upc' = "done"
    /\ uresp' = IF InputOk(review_data)
                THEN [code |-> 0, kind |-> "PRReviewAPIView.post"]
                ELSE BadRequest
    /\ UNCHANGED <<github_url, review_data, corevars, langvars, promptvars>>

UrlNext == ValidateUrl \/ ParseUrl \/ DelegateReview
UrlSpec == UrlInit /\ [][UrlNext]_vars

\* ------------------------------------------------------------ claim C22
\* the URL is exactly https://github.com/<owner>/<repo>/pull/<number>
ExactShape(u) ==
    \E o \in 1 .. Len(u), r \in 1 .. Len(u), n \in 1 .. Len(u) :
        /\ Len(u) = Len(UrlPrefix) + o + Len(Slash) + r + Len(PullPath) + n
        /\ u = UrlPrefix \o SubSeq(u, 4, 3 + o) \o Slash
                 \o SubSeq(u, 5 + o, 4 + o + r) \o PullPath
                 \o SubSeq(u, 8 + o + r, 7 + o + r + n)
        /\ \A k \in 4 .. 3 + o : u[k] # "/"
        /\ \A k \in 5 + o .. 4 + o + r : u[k] # "/"
        /\ \A k \in 8 + o + r .. 7 + o + r + n : u[k] \in Digit
Delegated == uresp.kind = "PRReviewAPIView.post"

\* C22: a URL of exactly the shape is delegated with the triple parsed from
\* it, and every other URL is answered 400 with nothing handed to the trigger.
C22_ExactShapeOnly ==
    upc = "done" =>
       IF ExactShape(github_url)
       THEN Delegated /\ review_data = Groups(github_url)
       ELSE uresp.code = 400 /\ review_data = NoData /\ ~Delegated

\* what holds in its place: a URL of the shape is delegated with its triple,
\* and a URL that does not begin with the shape is answered 400
C22_PrefixShape ==
    upc = "done" =>
       /\ ExactShape(github_url) => Delegated /\ review_data = Groups(github_url)
       /\ (~\E i \in 1 .. Len(github_url) : ExactShape(SubSeq(github_url, 1, i)))
             => uresp.code = 400 /\ review_data = NoData /\ ~Delegated

\* ------------------------------------------------------------ Part 7
\* PRReviewService.detect_language (422-438)
PathChars == {".", "c", "s", "p", "y", "C", "S"}

\* str.lower(), character by character
LowerNot(c) == c
Lower(c) == IF c = "C" THEN "c" ELSE IF c = "S" THEN "s" ELSE c
lower(p) == [k \in 1 .. Len(p) |-> Lower(p[k])]

\* language_map, in the order of the dict literal (428-433)
language_map == <<
    [ext |-> <<".", "p", "y">>, lang |-> "Python"],
    [ext |-> <<".", "j", "s">>, lang |-> "JavaScript"],
    [ext |-> <<".", "t", "s">>, lang |-> "TypeScript"],
    [ext |-> <<".", "j", "a", "v", "a">>, lang |-> "Java"],
    [ext |-> <<".", "c", "p", "p">>, lang |-> "C++"],
    [ext |-> <<".", "c">>, lang |-> "C"],
    [ext |-> <<".", "c", "s">>, lang |-> "C#"],
    [ext |-> <<".", "g", "o">>, lang |-> "Go"],
    [ext |-> <<".", "r", "s">>, lang |-> "Rust"],
    [ext |-> <<".", "p", "h", "p">>, lang |-> "PHP"],
    [ext |-> <<".", "r", "b">>, lang |-> "Ruby"],
    [ext |-> <<".", "h", "t", "m", "l">>, lang |-> "HTML"],
    [ext |-> <<".", "c", "s", "s">>, lang |-> "CSS"],
    [ext |-> <<".", "s", "q", "l">>, lang |-> "SQL"] >>

\* str.endswith
EndsWith(p, suffix) ==
    /\ Len(suffix) <= Len(p)
    /\ SubSeq(p, Len(p) - Len(suffix) + 1, Len(p)) = suffix

\* for ext, lang in language_map.items(): the first entry that matches (435-438)
RECURSIVE Scan(_, _)
Scan(map, p) ==
    IF map = <<>> THEN "Unknown"
    ELSE IF EndsWith(p, Head(map).ext) THEN Head(map).lang
    ELSE Scan(Tail(map), p)

Detect(map, fp) ==
    IF ~fp.given \/ fp.chars = <<>> THEN "Unknown"
    ELSE Scan(map, lower(fp.chars))
detect_language(fp) == Detect(language_map, fp)

PathsUpTo(n) == UNION {[1 .. k -> PathChars] : k \in 0 .. n}
FilePaths == {NoPath} \cup {[given |-> TRUE, chars |-> p] : p \in PathsUpTo(MaxPathLen)}

LangInit ==
    /\ TriggerIdle
    /\ RunIdle
    /\ RequestIdle
    /\ DiffIdle
    /\ UrlIdle
    /\ PromptIdle
    /\ files = <<>>
    /\ apc = "off"
    /\ file_path \in FilePaths
    /\ language = "none"
    /\ lpc = "call"

\* language = self.detect_language(file_path) (580, 662)
DetectLanguage ==
    /\ lpc = "call"
    /\ language' = detect_language(file_path)
    /\ lpc' = "done"
    /\ UNCHANGED <<file_path, corevars, urlvars, promptvars>>

LangNext == DetectLanguage
LangSpec == LangInit /\ [][LangNext]_vars

\* ------------------------------------------------------------ claim C27
\* the upper-case letters of the paths, with their lower-case forms
CasePairs == {<<"C", "c">>, <<"S", "s">>}
\* the path ends with `ext` once its letters are taken in lower case
EndsWithFolded(p, ext) ==
    /\ Len(ext) <= Len(p)
    /\ \A k \in 1 .. Len(ext) :
          LET c == p[Len(p) - Len(ext) + k]
          IN c = ext[k] \/ <<c, ext[k]>> \in CasePairs
Matching(p) == {i \in DOMAIN language_map : EndsWithFolded(p, language_map[i].ext)}
Reversed(map) == [k \in 1 .. Len(map) |-> map[Len(map) + 1 - k]]

\* C27: the language returned is that of the table entry whose extension the
\* lower-cased path ends with, Unknown when there is none or the path is empty
\* or absent; no path matches two entries, and scanning the table in the
\* opposite order returns the same language.
C27_DetectLanguage ==
    lpc = "done" =>
       LET m == Matching(file_path.chars)
       IN /\ Cardinality(m) <= 1
          /\ \A i, j \in DOMAIN language_map :
                EndsWith(language_map[i].ext, language_map[j].ext) => i = j
          /\ \A i \in m : language = language_map[i].lang
          /\ (m = {} \/ ~file_path.given \/ file_path.chars = <<>>)
                => language = "Unknown"
          /\ language = Detect(Reversed(language_map), file_path)
C27_Witness ==
    /\ lpc = "done"
    /\ file_path.given
    /\ file_path.chars = <<"p", ".", "C", "S">>
    /\ language = "C#"

\* ------------------------------------------------------------ Part 8
\* PromptManager (73-216)
DictEntry(f) == [kind |-> "dict", parts |-> f]
ScalarEntry == [kind |-> "scalar", parts |-> [p \in Parts |-> "absent"]]
Dict(f) == [kind |-> "dict", entries |-> f]
\* an entry with a system and a user instruction
TemplateEntry(v) ==
    DictEntry([p \in Parts |-> IF p \in TemplateParts THEN v ELSE "absent"])

\* get_default_prompts (99-191): file_analysis and code_improvements, each with
\* system_prompt and user_prompt
DefaultNames == {"file_analysis", "code_improvements"}
get_default_prompts ==
    Dict([n \in PromptKeys |-> IF n \in DefaultNames THEN TemplateEntry("default")
                          ELSE AbsentEntry])

\* the states of the prompts file: not there, not readable (permissions, a
\* directory, bytes that are not UTF-8), not YAML, empty, or a YAML document:
\* `full` has the four templates and fallback_improvement.template, `partial`
\* has no user_prompt under file_analysis, `scalar` has a plain string under
\* file_analysis
Versions == {"v1", "v2"}
FailingStates == {"missing", "unreadable", "invalid", "empty"}
DocumentStates == {"full", "partial", "scalar"}
Sources ==
    {[state |-> st, version |-> "none"] : st \in FailingStates}
       \cup {[state |-> st, version |-> v] : st \in DocumentStates, v \in Versions}

\* yaml.safe_load(file) of a document (88)
Document(src) ==
    Dict([n \in PromptKeys |->
        IF n = "fallback_improvement"
        THEN DictEntry([p \in Parts |-> IF p = "template" THEN src.version
                                        ELSE "absent"])
        ELSE IF n = "file_analysis" /\ src.state = "partial"
        THEN DictEntry([p \in Parts |-> IF p = "system_prompt" THEN src.version
                                        ELSE "absent"])
        ELSE IF n = "file_analysis" /\ src.state = "scalar"
        THEN ScalarEntry
        ELSE TemplateEntry(src.version)])

\* load_prompts (84-97): only FileNotFoundError and yaml.YAMLError are caught;
\* safe_load of an empty file is None
Loaded(cat) == [raised |-> "none", value |-> cat]
load_prompts(src) ==
    IF src.state \in {"missing", "invalid"} THEN Loaded(get_default_prompts)
    ELSE IF src.state = "unreadable"
    THEN [raised |-> "OSError", value |-> NoneCatalog]
    ELSE IF src.state = "empty" THEN Loaded(NoneCatalog)
    ELSE Loaded(Document(src))

\* get_default_prompts().get(prompt_type, {}).get(prompt_part, "Default ...") (200)
DefaultPrompt(name, part) ==
    IF get_default_prompts.entries[name].kind = "dict"
          /\ get_default_prompts.entries[name].parts[part] # "absent"
    THEN get_default_prompts.entries[name].parts[part]
    ELSE "Default prompt not available"

\* get_prompt (193-200): self.prompts[prompt_type][prompt_part]; only KeyError
\* is caught.  Subscripting None, or a string with a string, raises TypeError.
get_prompt(cat, name, part) ==
    IF cat.kind = "none" THEN [raised |-> "TypeError", value |-> "none"]
    ELSE IF cat.entries[name].kind = "absent"
    THEN [raised |-> "none", value |-> DefaultPrompt(name, part)]
    ELSE IF cat.entries[name].kind = "scalar"
    THEN [raised |-> "TypeError", value |-> "none"]
    ELSE IF cat.entries[name].parts[part] = "absent"
    THEN [raised |-> "none", value |-> DefaultPrompt(name, part)]
    ELSE [raised |-> "none", value |-> cat.entries[name].parts[part]]

PromptInit ==
    /\ TriggerIdle
    /\ RunIdle
    /\ RequestIdle
    /\ DiffIdle
    /\ UrlIdle
    /\ LangIdle
    /\ files = <<>>
    /\ apc = "off"
    /\ source \in Sources
    /\ prompts = NoneCatalog
    /\ mpc = "new"
    /\ tpc = "off"
    /\ prompt_type = "none"
    /\ system_prompt = NoLookup
    /\ read_from = NotRead
    /\ template = NoTemplate
    /\ got = NoGot

othervars == <<corevars, urlvars, langvars>>

\* __init__: self.prompts = self.load_prompts() (82)
Construct ==
    /\ mpc = "new"
    /\ LET r == load_prompts(source)
       IN IF r.raised = "none"
          THEN mpc' = "ready" /\ prompts' = r.value /\ tpc' = "idle"
          ELSE mpc' = "failed" /\ prompts' = prompts /\ tpc' = tpc
    /\ UNCHANGED <<source, prompt_type, system_prompt, read_from, template, got,
                   othervars>>

\* the operator edits, removes or replaces the prompts file
EditSource ==
    /\ mpc = "ready"
    /\ source' \in Sources
    /\ UNCHANGED <<prompts, mpc, tpc, prompt_type, system_prompt, read_from,
                   template, got, othervars>>

\* reload_prompts (212-216), on a thread of its own: one assignment to
\* self.prompts; a load that raises leaves it as it was
ReloadPrompts ==
    /\ mpc = "ready"
    /\ LET r == load_prompts(source)
       IN prompts' = IF r.raised = "none" THEN r.value ELSE prompts
    /\ UNCHANGED <<source, mpc, tpc, prompt_type, system_prompt, read_from,
                   template, got, othervars>>

\* a direct call of get_prompt (526 and the callers of the catalog)
GetPrompt(name, part) ==
    /\ mpc = "ready" /\ tpc = "idle"
    /\ got' = [name |-> name, part |-> part,
               raised |-> get_prompt(prompts, name, part).raised,
               value |-> get_prompt(prompts, name, part).value]
    /\ template' = NoTemplate
    /\ read_from' = NotRead
    /\ UNCHANGED <<source, prompts, mpc, tpc, prompt_type, system_prompt, othervars>>

\* get_prompt_template: system_prompt = self.get_prompt(prompt_type,
\* 'system_prompt') (204); a raise ends the call
ReadSystemPrompt(name) ==
    /\ mpc = "ready" /\ tpc = "idle"
    /\ LET r == get_prompt(prompts, name, "system_prompt")
       IN /\ system_prompt' = r
          /\ IF r.raised = "none"
             THEN /\ tpc' = "user"
                  /\ template' = NoTemplate
             ELSE /\ tpc' = "idle"
                  /\ template' = [NoTemplate EXCEPT !.raised = r.raised]
    /\ prompt_type' = name
    /\ read_from' = [NotRead EXCEPT !.system = prompts]
    /\ got' = NoGot
    /\ UNCHANGED <<source, prompts, mpc, othervars>>

\* user_prompt = self.get_prompt(prompt_type, 'user_prompt'); return
\* ChatPromptTemplate.from_messages(...) (205-210)
ReadUserPrompt ==
    /\ mpc = "ready" /\ tpc = "user"
    /\ LET r == get_prompt(prompts, prompt_type, "user_prompt")
       IN template' = IF r.raised = "none"
                      THEN [raised |-> "none", system |-> system_prompt.value,
                            user |-> r.value]
                      ELSE [NoTemplate EXCEPT !.raised = r.raised]
    /\ tpc' = "idle"
    /\ read_from' = [read_from EXCEPT !.user = prompts]
    /\ UNCHANGED <<source, prompts, mpc, prompt_type, system_prompt, got, othervars>>

PromptNext ==
    \/ Construct
    \/ EditSource
    \/ ReloadPrompts
    \/ \E name \in PromptKeys, part \in Parts : GetPrompt(name, part)
    \/ \E name \in PromptNames : ReadSystemPrompt(name)
    \/ ReadUserPrompt
PromptSpec == PromptInit /\ [][PromptNext]_vars

\* ------------------------------------------------------------ claims C23 - C25
\* the catalog has the four templates, each with both instructions
HasAllTemplates(cat) ==
    /\ cat.kind = "dict"
    /\ \A n \in PromptNames :
          /\ cat.entries[n].kind = "dict"
          /\ \A p \in TemplateParts : cat.entries[n].parts[p] # "absent"

\* C23: construction over a prompts file that is missing, unreadable, not YAML
\* or empty does not fail, and leaves the manager holding a default set with
\* the four templates, each with a system and a user instruction.
C23_FallbackComplete ==
    [][(mpc = "new" /\ mpc' # "new" /\ source.state \in FailingStates)
          => (mpc' = "ready" /\ HasAllTemplates(prompts'))]_vars

\* what holds in its place: over a missing file or one that is not YAML,
\* construction succeeds and the manager holds the built-in set, which has
\* file_analysis and code_improvements with both instructions
C23_FallbackForCaughtErrors ==
    [][(mpc = "new" /\ mpc' # "new" /\ source.state \in {"missing", "invalid"})
          => (mpc' = "ready" /\ prompts' = get_default_prompts
              /\ \A n \in DefaultNames, p \in TemplateParts :
                    prompts'.entries[n].parts[p] = "default")]_vars

\* the catalog has no text under name and part
Absent(cat, name, part) ==
    \/ cat.kind # "dict"
    \/ cat.entries[name].kind # "dict"
    \/ cat.entries[name].parts[part] = "absent"

\* C24: a lookup raises nothing, and the lookup of a name or part the catalog
\* does not have returns the built-in default for it or the string
\* 'Default prompt not available'.
C24_LookupNeverFails ==
    [][got' # got /\ got' # NoGot
          => /\ got'.raised = "none"
             /\ Absent(prompts, got'.name, got'.part)
                   => got'.value \in {"default", "Default prompt not available"}]_vars

\* what holds in its place: the same, for a catalog that is a mapping whose
\* entry under the name, if any, is a mapping
C24_LookupOverMappings ==
    [][(got' # got /\ got' # NoGot /\ prompts.kind = "dict"
           /\ prompts.entries[got'.name].kind # "scalar")
          => /\ got'.raised = "none"
             /\ Absent(prompts, got'.name, got'.part)
                   => got'.value = DefaultPrompt(got'.name, got'.part)]_vars

\* the template get_prompt_template builds from one catalog
TemplateOf(cat, name) ==
    [raised |-> "none",
     system |-> get_prompt(cat, name, "system_prompt").value,
     user |-> get_prompt(cat, name, "user_prompt").value]
Built == tpc = "idle" /\ template # NoTemplate /\ template.raised = "none"

\* C25: a template that was built while reloads ran has both parts from one
\* version of the catalog: the one before or the one after.
C25_OneVersionPerTemplate ==
    Built => \/ template = TemplateOf(read_from.system, prompt_type)
             \/ template = TemplateOf(read_from.user, prompt_type)

\* what holds in its place: each part is read whole from the catalog that was
\* current at its read
C25_EachPartFromOneCatalog ==
    Built =>
       /\ template.system = get_prompt(read_from.system, prompt_type, "system_prompt").value
       /\ template.user = get_prompt(read_from.user, prompt_type, "user_prompt").value

====
